---- MODULE Spec2Model ----
(***************************************************************************)
(* Model of lemur/plugins/lemur_acme/acme_handlers.py: the ACME DNS-01     *)
(* handlers AcmeHandler and AcmeDnsHandler.                                *)
(*                                                                         *)
(* Three specifications share the module:                                  *)
(*   SpecResolver  AcmeDnsHandler.autodetect_dns_providers, one inner-loop *)
(*                 iteration per step, the suffix names drawn as inputs;   *)
(*   Spec          one issuance: get_authorizations, then                  *)
(*                 finalize_authorizations, and cleanup_dns_challenges     *)
(*                 on the failure path, one external call per step;        *)
(*   SpecSetup     AcmeHandler.setup_acme_client under its retry           *)
(*                 decorator, one attempt per step.                        *)
(***************************************************************************)
EXTENDS Integers, Sequences, FiniteSets, TLC

VARIABLES
    \* ---- autodetect_dns_providers
    domain,                   \* the domain argument, a string (sequence of characters)
    rpc,                      \* "loop" while iterating, "returned" after line 397
    provIdx,                  \* index into all_dns_providers of the provider being visited
    nameCount,                \* how many of its domains have been visited
    selection,                \* dns_providers_for_domain[domain]
    match_length,             \* the local match_length
    bestMatch,                \* history: per provider, the longest suffix of its
                              \* domains seen so far that matches, -1 when none did
    \* ---- the issuance
    domains,                  \* order_info.domains
    dns_providers_for_domain, \* self.dns_providers_for_domain
    provider_type,            \* dns_provider.provider_type of every provider
    order_challenges,         \* per host, how many DNS-01 challenges the order carries
    pc,                       \* the statement the issuance is at
    di, pj, ck, ri, wc,       \* loop positions: domain, provider, challenge, record, change id
    change_ids,               \* start_dns_challenge's local change_ids
    authorizations,           \* the list get_authorizations builds and returns
    held,                     \* the authorizations the caller holds
    verified,                 \* complete_dns_challenge's local verified
    verifyOutcome,            \* what simple_verify answers for each challenge, once asked
    calls,                    \* history: the external calls of the handlers, in order
    cleanupCalls,             \* history: the delete_txt_record calls of cleanup
    cleanupErrors,            \* the cleanup_dns_challenges_error counter
    gaResult, faResult,       \* how get_authorizations / finalize_authorizations ended
    error,                    \* the exception that ended the handler
    \* ---- setup_acme_client
    authority_options,        \* authority.options as passed: set or not, and its option list
    config,                   \* current_app.config
    spc,                      \* "calling", "returned" or "raised"
    attempts,                 \* history: "ok" or "failed" for every attempt so far
    lastError,                \* the exception of the latest failed attempt
    newAccountCalls,          \* how many times new_account_and_tos was called
    optionWrites,             \* the option lists update_options has stored
    session,                  \* the client the call returned
    raised,                   \* the exception that left the retry decorator
    reuse_result,             \* what reuse_account answered: "unasked", "true",
                              \* "false" or "InvalidAuthority"
    \* ---- get_dns_challenges
    gdc_host,                 \* the host argument, a string
    gpc,                      \* "loop" while iterating, "returned" after line 254
    authzCount,               \* how many authorizations have been visited
    dns_challenges,           \* the local dns_challenges
    eligible,                 \* history: the DNS-01 challenges of the authorizations
                              \* visited so far that are the host's
    \* ---- the record name of a host at a provider
    name_host,                \* the host, a string
    provider_options,         \* dns_provider.options
    provider_credentials,     \* json.loads(dns_provider.credentials)
    npc,                      \* "start", "created", "deleted" or "cleaned"
    created_name,             \* the name passed to create_txt_record
    deleted_name,             \* the name passed to delete_txt_record
    \* ---- request_certificate
    fullchain_pem,            \* the full chain the service issues for the order
    order_has_chain,          \* whether the order passed in carries fullchain_pem
    cross_signed_ica,         \* config IDENTRUST_CROSS_SIGNED_LE_ICA, <<>> when unset
    expiration_date,          \* config IDENTRUST_CROSS_SIGNED_LE_ICA_EXPIRATION_DATE
    now,                      \* datetime.datetime.now() at line 120
    rqpc,                     \* "polling", "finalizing", "returned" or "raised"
    finalize_outcome,         \* history: how poll_and_finalize ended
    rq_error,                 \* the exception that left request_certificate
    pem_certificate,          \* the returned certificate
    pem_certificate_chain     \* the returned chain

resolverVars ==
    <<domain, rpc, provIdx, nameCount, selection, match_length, bestMatch>>

issuanceVars ==
    <<domains, dns_providers_for_domain, provider_type, order_challenges, pc,
      di, pj, ck, ri, wc, change_ids, authorizations, held, verified,
      verifyOutcome, calls, cleanupCalls, cleanupErrors, gaResult, faResult, error>>

setupVars ==
    <<authority_options, config, spc, attempts, lastError, newAccountCalls,
      optionWrites, session, raised, reuse_result>>

challengeVars == <<gdc_host, gpc, authzCount, dns_challenges, eligible>>

nameVars ==
    <<name_host, provider_options, provider_credentials, npc, created_name,
      deleted_name>>

requestVars ==
    <<fullchain_pem, order_has_chain, cross_signed_ica, expiration_date, now,
      rqpc, finalize_outcome, rq_error, pem_certificate, pem_certificate_chain>>

pureVars == <<challengeVars, nameVars, requestVars>>

vars == <<resolverVars, issuanceVars, setupVars, pureVars>>

Range(s) == {s[i] : i \in 1..Len(s)}

Max(S) == CHOOSE x \in S : \A y \in S : y <= x

\* All sequences over S of length lo..hi.
SeqsOf(S, lo, hi) == UNION {[1..n -> S] : n \in lo..hi}

(***************************************************************************)
(* Bounds.                                                                 *)
(***************************************************************************)
MaxNameLen == 3        \* longest suffix name a provider owns
MaxDomainLen == 5      \* longest requested domain
NumAllProviders == 3   \* len(all_dns_providers)
MaxSuffixes == 2       \* len(dns_provider.domains)

(***************************************************************************)
(* Strings are sequences of characters.                                    *)
(***************************************************************************)
Alphabet == {"a", "."}

Names == SeqsOf(Alphabet, 0, MaxNameLen)

Domains == SeqsOf(Alphabet, 1, MaxDomainLen)

\* str.endswith
EndsWith(s, t) ==
    /\ Len(t) <= Len(s)
    /\ \A i \in 1..Len(t) : s[Len(s) - Len(t) + i] = t[i]

\* line 390: name == domain or domain.endswith("." + name)
NameMatches(name, d) == name = d \/ EndsWith(d, <<".">> \o name)

(***************************************************************************)
(* setup_acme_client under @retry (lines 133-200).                         *)
(*                                                                         *)
(* An option is a name and a value; the empty string stands for every      *)
(* falsy value (empty, null, false or no "value" key), and for a key of    *)
(* current_app.config that is not set.                                     *)
(***************************************************************************)
MaxOptions == 3   \* len(json.loads(authority.options))

\* line 133: stop_max_attempt_number
stop_max_attempt_number == 5

OptionNames == {"acme_private_key", "acme_regr", "store_account"}

Option == [name : OptionNames, value : {"", "stored"}]

NoSession == [key |-> "", regr |-> "", new |-> FALSE]

SetupIdle ==
    /\ authority_options = [set |-> FALSE, list |-> <<>>]
    /\ config = <<>>
    /\ spc = "idle"
    /\ attempts = <<>>
    /\ lastError = "none"
    /\ newAccountCalls = 0
    /\ optionWrites = <<>>
    /\ session = NoSession
    /\ raised = "none"
    /\ reuse_result = "unasked"

\* The call, for any authority (options not set, or any list of options) and
\* any process-wide defaults.
SetupInit ==
    /\ authority_options \in
         {[set |-> FALSE, list |-> <<>>]} \cup
         {[set |-> TRUE, list |-> l] : l \in SeqsOf(Option, 0, MaxOptions)}
    /\ config \in [ACME_PRIVATE_KEY : {"", "default"}, ACME_REGR : {"", "default"}]
    /\ spc = "calling"
    /\ attempts = <<>>
    /\ lastError = "none"
    /\ newAccountCalls = 0
    /\ optionWrites = <<>>
    /\ session = NoSession
    /\ raised = "none"
    /\ reuse_result = "unasked"

\* lines 137-140: options[option["name"]] = option.get("value"), so that the
\* last option of a name wins; HasOption is `name in options`.
HasOption(list, name) == \E i \in 1..Len(list) : list[i].name = name

\* options.get(name, default)
OptionsGet(list, name, default) ==
    IF HasOption(list, name)
    THEN list[Max({i \in 1..Len(list) : list[i].name = name})].value
    ELSE default

\* lines 147-150
existing_key ==
    OptionsGet(authority_options.list, "acme_private_key", config.ACME_PRIVATE_KEY)

existing_regr ==
    OptionsGet(authority_options.list, "acme_regr", config.ACME_REGR)

\* line 152: if existing_key and existing_regr
ReusesAccount == existing_key # "" /\ existing_regr # ""

\* A plausible slip: stop only after the attempt past the maximum.
RetryStopsLate(attempt_number) == attempt_number > stop_max_attempt_number

\* line 133, retrying's stop_after_attempt: no retry once attempt_number has
\* reached stop_max_attempt_number.
RetryStops(attempt_number) == attempt_number >= stop_max_attempt_number

\* An attempt raised e; retrying retries on every exception (no
\* retry_on_exception is given) until RetryStops, and then re-raises the
\* exception of that last attempt.
AttemptFails(e) ==
    /\ attempts' = Append(attempts, "failed")
    /\ lastError' = e
    /\ IF RetryStops(Len(attempts) + 1)
       THEN spc' = "raised" /\ raised' = e
       ELSE UNCHANGED <<spc, raised>>
    /\ UNCHANGED session

\* An attempt returned the client.
AttemptReturns(s) ==
    /\ attempts' = Append(attempts, "ok")
    /\ spc' = "returned"
    /\ session' = s
    /\ UNCHANGED <<lastError, raised>>

setupFixed ==
    <<authority_options, config, reuse_result, resolverVars, issuanceVars,
      pureVars>>

\* lines 135-136: no options, InvalidAuthority.
SetupInvalidAuthority ==
    /\ spc = "calling"
    /\ ~authority_options.set
    /\ AttemptFails("InvalidAuthority")
    /\ UNCHANGED <<newAccountCalls, optionWrites, setupFixed>>

\* lines 152-162: the stored key and registration are bound to a client, whose
\* construction reaches the directory or fails.
SetupReuse ==
    /\ spc = "calling"
    /\ authority_options.set
    /\ ReusesAccount
    /\ \E ok \in BOOLEAN :
        IF ok
        THEN AttemptReturns([key |-> existing_key, regr |-> existing_regr,
                             new |-> FALSE])
        ELSE AttemptFails("directory_unreachable")
    /\ UNCHANGED <<newAccountCalls, optionWrites, setupFixed>>

\* lines 180-194: the options plus the new key and registration.
new_options ==
    authority_options.list \o
        <<[name |-> "acme_private_key", value |-> "generated"],
          [name |-> "acme_regr", value |-> "registered"]>>

\* lines 163-200: a fresh key, a client (whose construction may fail), the
\* registration (which may fail), then options['store_account'] (KeyError when
\* there is no such option) and, when it is set, update_options (which may
\* fail).
SetupNewAccount ==
    /\ spc = "calling"
    /\ authority_options.set
    /\ ~ReusesAccount
    /\ \E directoryOk, registrationOk, updateOk \in BOOLEAN :
        LET fresh == [key |-> "generated", regr |-> "registered", new |-> TRUE]
            list == authority_options.list
        IN  IF ~directoryOk
            THEN /\ AttemptFails("directory_unreachable")
                 /\ UNCHANGED <<newAccountCalls, optionWrites>>
            ELSE /\ newAccountCalls' = newAccountCalls + 1
                 /\ IF ~registrationOk
                    THEN AttemptFails("registration_timeout") /\ UNCHANGED optionWrites
                    ELSE IF ~HasOption(list, "store_account")
                    THEN AttemptFails("KeyError") /\ UNCHANGED optionWrites
                    ELSE IF OptionsGet(list, "store_account", "") = ""
                    THEN AttemptReturns(fresh) /\ UNCHANGED optionWrites
                    ELSE IF updateOk
                    THEN /\ AttemptReturns(fresh)
                         /\ optionWrites' = Append(optionWrites, new_options)
                    ELSE /\ AttemptFails("update_options_failed")
                         /\ UNCHANGED optionWrites
    /\ UNCHANGED setupFixed

\* lines 52-56: an option of that name with a truthy value, anywhere in the
\* list.
OptionIsSet(list, name) ==
    \E i \in 1..Len(list) : list[i].name = name /\ list[i].value # ""

\* lines 50-68: each flag is set by an option, or else by the default.
reuse_account ==
    LET key_in_options == OptionIsSet(authority_options.list, "acme_private_key")
        regr_in_options == OptionIsSet(authority_options.list, "acme_regr")
        key == IF ~key_in_options /\ config.ACME_PRIVATE_KEY # ""
               THEN TRUE ELSE key_in_options
        regr == IF ~regr_in_options /\ config.ACME_REGR # ""
                THEN TRUE ELSE regr_in_options
    IN  key /\ regr

\* lines 47-68: reuse_account is asked about the authority, before, during or
\* after its setup; it is not retried.
ReuseAccountCall ==
    /\ spc # "idle"
    /\ reuse_result = "unasked"
    /\ reuse_result' =
         IF ~authority_options.set THEN "InvalidAuthority"
         ELSE IF reuse_account THEN "true" ELSE "false"
    /\ UNCHANGED <<authority_options, config, spc, attempts, lastError,
                   newAccountCalls, optionWrites, session, raised,
                   resolverVars, issuanceVars, pureVars>>

SetupNext ==
    SetupInvalidAuthority \/ SetupReuse \/ SetupNewAccount \/ ReuseAccountCall

(***************************************************************************)
(* autodetect_dns_providers (lines 378-397).                               *)
(***************************************************************************)
AllProviders == 1..NumAllProviders

\* A plausible slip: a match as long as the best one replaces the selection
\* instead of joining it.
AutodetectStepNoTies(sel, ml, p, name, d) ==
    IF NameMatches(name, d) /\ Len(name) >= ml
    THEN [sel |-> <<p>>, ml |-> Len(name)]
    ELSE [sel |-> sel, ml |-> ml]

\* Lines 390-395: one iteration of the inner loop, for the name `name` of
\* provider p, from the selection sel and the match_length ml.
AutodetectStep(sel, ml, p, name, d) ==
    IF NameMatches(name, d)
    THEN IF Len(name) > ml
         THEN [sel |-> <<p>>, ml |-> Len(name)]
         ELSE IF Len(name) = ml
              THEN [sel |-> Append(sel, p), ml |-> ml]
              ELSE [sel |-> sel, ml |-> ml]
    ELSE [sel |-> sel, ml |-> ml]

\* A suffix owns a domain, stated without endswith: the suffix is the whole
\* domain, or the domain is some prefix, then a dot, then the suffix.
SuffixOwnsDomain(name, d) ==
    \/ name = d
    \/ \E i \in 1..Len(d) : d[i] = "." /\ SubSeq(d, i + 1, Len(d)) = name

ResolverIdle ==
    /\ domain = <<>>
    /\ rpc = "idle"
    /\ provIdx = 0
    /\ nameCount = 0
    /\ selection = <<>>
    /\ match_length = 0
    /\ bestMatch = <<>>

\* Lines 384-385, for any domain: the selection is emptied, match_length is 0.
ResolverInit ==
    /\ domain \in Domains
    /\ rpc = "loop"
    /\ provIdx = 1
    /\ nameCount = 0
    /\ selection = <<>>
    /\ match_length = 0
    /\ bestMatch = [p \in AllProviders |-> -1]

\* Lines 389-395: the next name of the provider being visited, any name.
AutodetectName(name) ==
    /\ rpc = "loop"
    /\ provIdx <= NumAllProviders
    /\ nameCount < MaxSuffixes
    /\ LET r == AutodetectStep(selection, match_length, provIdx, name, domain)
       IN  /\ selection' = r.sel
           /\ match_length' = r.ml
    /\ nameCount' = nameCount + 1
    /\ bestMatch' =
         IF SuffixOwnsDomain(name, domain) /\ Len(name) > bestMatch[provIdx]
         THEN [bestMatch EXCEPT ![provIdx] = Len(name)]
         ELSE bestMatch
    /\ UNCHANGED <<domain, rpc, provIdx, issuanceVars, setupVars, pureVars>>

\* Lines 386-388: the provider's domains are exhausted (a provider with none
\* is skipped); on to the next provider.
AutodetectNextProvider ==
    /\ rpc = "loop"
    /\ provIdx <= NumAllProviders
    /\ provIdx' = provIdx + 1
    /\ nameCount' = 0
    /\ UNCHANGED <<domain, rpc, selection, match_length, bestMatch,
                   issuanceVars, setupVars, pureVars>>

\* Line 397.
AutodetectReturn ==
    /\ rpc = "loop"
    /\ provIdx > NumAllProviders
    /\ rpc' = "returned"
    /\ UNCHANGED <<domain, provIdx, nameCount, selection, match_length, bestMatch,
                   issuanceVars, setupVars, pureVars>>

ResolverNext ==
    \/ \E name \in Names : AutodetectName(name)
    \/ AutodetectNextProvider
    \/ AutodetectReturn

(***************************************************************************)
(* The issuance: get_authorizations, finalize_authorizations and           *)
(* cleanup_dns_challenges (lines 269-464), one external call per step.     *)
(*                                                                         *)
(* Hosts and providers are numbered. A DNS-01 challenge of host h is the   *)
(* pair <<h, k>>; the change identifier create_txt_record returns names    *)
(* the provider that made it, the host and the challenge.                  *)
(***************************************************************************)
MaxDomains == 2      \* len(order_info.domains)
MaxProviders == 2    \* providers known to the handler
MaxChallenges == 2   \* DNS-01 challenges get_dns_challenges finds for one host

Hosts == 1..MaxDomains

Providers == 1..MaxProviders

\* The elements of the set S of numbers, in increasing order.
SortedSeq(S) ==
    CHOOSE s \in [1..Cardinality(S) -> S] :
        \A i, j \in 1..Cardinality(S) : i < j => s[i] < s[j]

\* line 257-263: the provider types get_dns_provider knows.
KnownProviderTypes == {"cloudflare", "dyn", "route53", "ultradns", "powerdns"}

\* lines 264-267: get_dns_provider raises UnknownProvider for any other type.
ProviderKnown(p) == provider_type[p] \in KnownProviderTypes

NoError == [kind |-> "none", domain |-> 0]

\* One external call: op is "create", "wait", "verify", "answer" or "delete";
\* rec is the index of the AuthorizationRecord it is made for, prov the provider
\* whose plugin and account id are used (0 for the ACME calls), chall the
\* challenge (for "wait", the position of the change id), made the provider
\* whose create_txt_record returned the change id(s) passed.
Call(op, rec, host, prov, chall, made, ok) ==
    [op |-> op, rec |-> rec, host |-> host, prov |-> prov, chall |-> chall,
     made |-> made, ok |-> ok]

\* lines 37-42: AuthorizationRecord(host, authz, dns_challenge, change_id); authz
\* is order.authorizations for every record, dns_challenge the challenges
\* <<host, 1>> .. <<host, dns_challenge>>.
AuthorizationRecord(host, dns_challenge, change_id) ==
    [host |-> host, dns_challenge |-> dns_challenge, change_id |-> change_id]

IssuanceIdle ==
    /\ domains = <<>>
    /\ dns_providers_for_domain = <<>>
    /\ provider_type = <<>>
    /\ order_challenges = <<>>
    /\ pc = "idle"
    /\ di = 0 /\ pj = 0 /\ ck = 0 /\ ri = 0 /\ wc = 0
    /\ change_ids = <<>>
    /\ authorizations = <<>>
    /\ held = <<>>
    /\ verified = "unset"
    /\ verifyOutcome = <<>>
    /\ calls = <<>>
    /\ cleanupCalls = <<>>
    /\ cleanupErrors = 0
    /\ gaResult = "none" /\ faResult = "none"
    /\ error = NoError

\* The handler as the caller leaves it before get_authorizations: an order of
\* 1..MaxDomains distinct hosts, for each the providers selected (in the order
\* of all_dns_providers, possibly none), and the order's DNS-01 challenges.
IssuanceInit ==
    /\ \E n \in 1..MaxDomains :
        /\ domains = [i \in 1..n |-> i]
        /\ dns_providers_for_domain \in
             [1..n -> {SortedSeq(S) : S \in SUBSET Providers}]
        /\ order_challenges \in [1..n -> 0..MaxChallenges]
    /\ provider_type \in [Providers -> {"route53", "unknown"}]
    /\ pc = "ga_domain"
    /\ di = 1 /\ pj = 0 /\ ck = 0 /\ ri = 0 /\ wc = 0
    /\ change_ids = <<>>
    /\ authorizations = <<>>
    /\ held = <<>>
    /\ verified = "unset"
    /\ verifyOutcome = [c \in Hosts \X (1..MaxChallenges) |-> "unasked"]
    /\ calls = <<>>
    /\ cleanupCalls = <<>>
    /\ cleanupErrors = 0
    /\ gaResult = "none" /\ faResult = "none"
    /\ error = NoError

\* What no step of the issuance changes: the handler's configuration and the
\* order, and the state of the other two specifications.
configVars ==
    <<domains, dns_providers_for_domain, provider_type, order_challenges,
      resolverVars, setupVars, pureVars>>

cleanupVars == <<cleanupCalls, cleanupErrors>>

\* get_authorizations raises: the list built so far is dropped with its frame.
GaRaise(kind, d) ==
    /\ pc' = "ga_raised"
    /\ gaResult' = "raised"
    /\ error' = [kind |-> kind, domain |-> d]

\* finalize_authorizations raises.
FaRaise(kind, d) ==
    /\ pc' = "fa_raised"
    /\ faResult' = "raised"
    /\ error' = [kind |-> kind, domain |-> d]

(***************************************************************************)
(* get_authorizations (lines 354-376) and start_dns_challenge (269-302).   *)
(***************************************************************************)
\* A plausible slip: the return of line 376 indented into the loop, so that the
\* list is returned once the first domain is done.
GA_DomainReturnsEarly ==
    /\ pc = "ga_domain"
    /\ IF di > 1
       THEN /\ pc' = "ga_returned"
            /\ gaResult' = "returned"
            /\ UNCHANGED <<error, pj>>
       ELSE IF dns_providers_for_domain[domains[di]] = <<>>
            THEN GaRaise("no_dns_provider", domains[di]) /\ UNCHANGED pj
            ELSE /\ pc' = "ga_provider"
                 /\ pj' = 1
                 /\ UNCHANGED <<gaResult, error>>
    /\ UNCHANGED <<configVars, di, ck, ri, wc, change_ids, authorizations, held,
                   verified, verifyOutcome, calls, cleanupVars, faResult>>

\* lines 357-362 and 376: the next domain; none left, return the list; no
\* provider for it, raise.
GA_Domain ==
    /\ pc = "ga_domain"
    /\ IF di > Len(domains)
       THEN /\ pc' = "ga_returned"
            /\ gaResult' = "returned"
            /\ UNCHANGED <<error, pj>>
       ELSE IF dns_providers_for_domain[domains[di]] = <<>>
            THEN GaRaise("no_dns_provider", domains[di]) /\ UNCHANGED pj
            ELSE /\ pc' = "ga_provider"
                 /\ pj' = 1
                 /\ UNCHANGED <<gaResult, error>>
    /\ UNCHANGED <<configVars, di, ck, ri, wc, change_ids, authorizations, held,
                   verified, verifyOutcome, calls, cleanupVars, faResult>>

\* lines 363-366: the next provider of the domain, and its plugin.
GA_Provider ==
    /\ pc = "ga_provider"
    /\ LET provs == dns_providers_for_domain[domains[di]]
       IN  IF pj > Len(provs)
           THEN /\ pc' = "ga_domain"
                /\ di' = di + 1
                /\ UNCHANGED <<gaResult, error>>
           ELSE IF ~ProviderKnown(provs[pj])
                THEN GaRaise("unknown_provider", domains[di]) /\ UNCHANGED di
                ELSE /\ pc' = "sdc_start"
                     /\ UNCHANGED <<di, gaResult, error>>
    /\ UNCHANGED <<configVars, pj, ck, ri, wc, change_ids, authorizations, held,
                   verified, verifyOutcome, calls, cleanupVars, faResult>>

\* lines 280-290: the host's DNS-01 challenges; none, raise.
SDC_Start ==
    /\ pc = "sdc_start"
    /\ IF order_challenges[domains[di]] = 0
       THEN GaRaise("no_dns_challenges", domains[di]) /\ UNCHANGED <<ck, change_ids>>
       ELSE /\ pc' = "sdc_create"
            /\ ck' = 1
            /\ change_ids' = <<>>
            /\ UNCHANGED <<gaResult, error>>
    /\ UNCHANGED <<configVars, di, pj, ri, wc, authorizations, held,
                   verified, verifyOutcome, calls, cleanupVars, faResult>>

\* lines 292-302 and 375: create_txt_record for the next challenge, which fails
\* or returns a change id; after the last one the record joins the list.
SDC_Create ==
    /\ pc = "sdc_create"
    /\ LET h == domains[di]
           p == dns_providers_for_domain[h][pj]
       IN  IF ck > order_challenges[h]
           THEN /\ authorizations' =
                     Append(authorizations,
                            AuthorizationRecord(h, order_challenges[h], change_ids))
                /\ pc' = "ga_provider"
                /\ pj' = pj + 1
                /\ UNCHANGED <<ck, change_ids, calls, gaResult, error>>
           ELSE \E ok \in BOOLEAN :
                /\ calls' = Append(calls,
                       Call("create", Len(authorizations) + 1, h, p, ck, p, ok))
                /\ IF ok
                   THEN /\ change_ids' =
                             Append(change_ids, [prov |-> p, host |-> h, chall |-> ck])
                        /\ ck' = ck + 1
                        /\ UNCHANGED <<pc, gaResult, error>>
                   ELSE /\ GaRaise("create_failed", h)
                        /\ UNCHANGED <<ck, change_ids>>
                /\ UNCHANGED <<authorizations, pj>>
    /\ UNCHANGED <<configVars, di, ri, wc, held, verified, verifyOutcome,
                   cleanupVars, faResult>>

(***************************************************************************)
(* finalize_authorizations (lines 399-425) and complete_dns_challenge      *)
(* (304-352), on the list the caller passes (held).                        *)
(***************************************************************************)
\* A plausible slip: the teardown starts once the first record is completed.
FA_CompleteFirstOnly ==
    /\ pc = "fa_complete"
    /\ IF ri > 1
       THEN pc' = "fa_record" /\ ri' = 1
       ELSE pc' = "cdc_start" /\ UNCHANGED ri
    /\ UNCHANGED <<configVars, di, pj, ck, wc, change_ids, authorizations, held,
                   verified, verifyOutcome, calls, cleanupVars, gaResult,
                   faResult, error>>

\* lines 400-401: complete the next record; after the last, tear down.
FA_Complete ==
    /\ pc = "fa_complete"
    /\ IF ri > Len(held)
       THEN pc' = "fa_record" /\ ri' = 1
       ELSE pc' = "cdc_start" /\ UNCHANGED ri
    /\ UNCHANGED <<configVars, di, pj, ck, wc, change_ids, authorizations, held,
                   verified, verifyOutcome, calls, cleanupVars, gaResult,
                   faResult, error>>

\* lines 310-315: the providers of the record's host.
CDC_Start ==
    /\ pc = "cdc_start"
    /\ IF dns_providers_for_domain[held[ri].host] = <<>>
       THEN FaRaise("no_dns_provider", held[ri].host) /\ UNCHANGED pj
       ELSE /\ pc' = "cdc_provider"
            /\ pj' = 1
            /\ UNCHANGED <<faResult, error>>
    /\ verified' = "unset"
    /\ UNCHANGED <<configVars, di, ck, ri, wc, change_ids, authorizations, held,
                   verifyOutcome, calls, cleanupVars, gaResult>>

\* lines 317-321: the next provider of the host and its plugin; after the last
\* provider complete_dns_challenge returns.
CDC_Provider ==
    /\ pc = "cdc_provider"
    /\ LET provs == dns_providers_for_domain[held[ri].host]
       IN  IF pj > Len(provs)
           THEN /\ pc' = "fa_complete"
                /\ ri' = ri + 1
                /\ UNCHANGED <<wc, faResult, error>>
           ELSE IF ~ProviderKnown(provs[pj])
                THEN FaRaise("unknown_provider", held[ri].host) /\ UNCHANGED <<ri, wc>>
                ELSE /\ pc' = "cdc_wait"
                     /\ wc' = 1
                     /\ UNCHANGED <<ri, faResult, error>>
    /\ UNCHANGED <<configVars, di, pj, ck, change_ids, authorizations, held,
                   verified, verifyOutcome, calls, cleanupVars, gaResult>>

\* lines 322-335: wait_for_dns_change, at this provider, for the next change id
\* of the record; a failure is re-raised.
CDC_Wait ==
    /\ pc = "cdc_wait"
    /\ LET rec == held[ri]
           q == dns_providers_for_domain[rec.host][pj]
       IN  IF wc > Len(rec.change_id)
           THEN /\ pc' = "cdc_verify"
                /\ ck' = 1
                /\ UNCHANGED <<wc, calls, faResult, error>>
           ELSE \E ok \in BOOLEAN :
                /\ calls' = Append(calls,
                       Call("wait", ri, rec.host, q, rec.change_id[wc].chall,
                            rec.change_id[wc].prov, ok))
                /\ IF ok
                   THEN wc' = wc + 1 /\ UNCHANGED <<pc, faResult, error>>
                   ELSE FaRaise("wait_failed", rec.host) /\ UNCHANGED wc
                /\ UNCHANGED ck
    /\ UNCHANGED <<configVars, di, pj, ri, change_ids, authorizations, held,
                   verified, verifyOutcome, cleanupVars, gaResult>>

\* lines 337-344: the response of the next challenge and its local
\* verification, which overwrites verified; simple_verify answers the same for
\* the same challenge every time.
CDC_Verify ==
    /\ pc = "cdc_verify"
    /\ LET rec == held[ri]
           c == <<rec.host, ck>>
       IN  IF ck > rec.dns_challenge
           THEN /\ pc' = "cdc_check"
                /\ UNCHANGED <<ck, verified, verifyOutcome, calls>>
           ELSE \E r \in (IF verifyOutcome[c] = "unasked"
                          THEN {"ok", "bad"} ELSE {verifyOutcome[c]}) :
                /\ verifyOutcome' = [verifyOutcome EXCEPT ![c] = r]
                /\ verified' = IF r = "ok" THEN "yes" ELSE "no"
                /\ calls' = Append(calls,
                       Call("verify", ri, rec.host, 0, ck, 0, r = "ok"))
                /\ ck' = ck + 1
                /\ UNCHANGED pc
    /\ UNCHANGED <<configVars, di, pj, ri, wc, change_ids, authorizations, held,
                   cleanupVars, gaResult, faResult, error>>

\* lines 346-348, after the loop: only the verified left by the last challenge
\* is looked at.
CDC_Check ==
    /\ pc = "cdc_check"
    /\ IF verified = "yes"
       THEN pc' = "cdc_answer" /\ UNCHANGED <<faResult, error>>
       ELSE FaRaise(IF verified = "no" THEN "verification_failed" ELSE "unbound_local",
                    held[ri].host)
    /\ UNCHANGED <<configVars, di, pj, ck, ri, wc, change_ids, authorizations, held,
                   verified, verifyOutcome, calls, cleanupVars, gaResult>>

\* lines 350-352: answer_challenge with the loop's last challenge and response.
CDC_Answer ==
    /\ pc = "cdc_answer"
    /\ \E ok \in BOOLEAN :
        /\ calls' = Append(calls,
               Call("answer", ri, held[ri].host, 0, held[ri].dns_challenge, 0, ok))
        /\ IF ok
           THEN /\ pc' = "cdc_provider"
                /\ pj' = pj + 1
                /\ UNCHANGED <<faResult, error>>
           ELSE FaRaise("answer_failed", held[ri].host) /\ UNCHANGED pj
    /\ UNCHANGED <<configVars, di, ck, ri, wc, change_ids, authorizations, held,
                   verified, verifyOutcome, cleanupVars, gaResult>>

\* lines 403-404 and 425: the teardown's next record; after the last, return.
FA_Record ==
    /\ pc = "fa_record"
    /\ IF ri > Len(held)
       THEN /\ pc' = "fa_returned"
            /\ faResult' = "returned"
            /\ UNCHANGED ck
       ELSE /\ pc' = "fa_challenge"
            /\ ck' = 1
            /\ UNCHANGED faResult
    /\ UNCHANGED <<configVars, di, pj, ri, wc, change_ids, authorizations, held,
                   verified, verifyOutcome, calls, cleanupVars, gaResult, error>>

\* lines 405-406: the record's next challenge and the host's providers.
FA_Challenge ==
    /\ pc = "fa_challenge"
    /\ IF ck > held[ri].dns_challenge
       THEN /\ pc' = "fa_record"
            /\ ri' = ri + 1
            /\ UNCHANGED pj
       ELSE /\ pc' = "fa_delete"
            /\ pj' = 1
            /\ UNCHANGED ri
    /\ UNCHANGED <<configVars, di, ck, wc, change_ids, authorizations, held,
                   verified, verifyOutcome, calls, cleanupVars, gaResult,
                   faResult, error>>

\* A plausible slip: the teardown swallows a failed deletion, as cleanup does.
FA_DeleteSwallows ==
    /\ pc = "fa_delete"
    /\ LET rec == held[ri]
           provs == dns_providers_for_domain[rec.host]
       IN  IF pj > Len(provs)
           THEN /\ pc' = "fa_challenge"
                /\ ck' = ck + 1
                /\ UNCHANGED <<pj, calls, faResult, error>>
           ELSE IF ~ProviderKnown(provs[pj])
                THEN /\ FaRaise("unknown_provider", rec.host)
                     /\ UNCHANGED <<pj, ck, calls>>
                ELSE \E ok \in BOOLEAN :
                     /\ calls' = Append(calls,
                            Call("delete", ri, rec.host, provs[pj], ck,
                                 rec.change_id[1].prov, ok))
                     /\ pj' = pj + 1
                     /\ UNCHANGED <<pc, faResult, error, ck>>
    /\ UNCHANGED <<configVars, di, ri, wc, change_ids, authorizations, held,
                   verified, verifyOutcome, cleanupVars, gaResult>>

\* lines 407-423: delete_txt_record at the next provider of the host, with the
\* record's whole change_id list; nothing catches a failure.
FA_Delete ==
    /\ pc = "fa_delete"
    /\ LET rec == held[ri]
           provs == dns_providers_for_domain[rec.host]
       IN  IF pj > Len(provs)
           THEN /\ pc' = "fa_challenge"
                /\ ck' = ck + 1
                /\ UNCHANGED <<pj, calls, faResult, error>>
           ELSE IF ~ProviderKnown(provs[pj])
                THEN /\ FaRaise("unknown_provider", rec.host)
                     /\ UNCHANGED <<pj, ck, calls>>
                ELSE \E ok \in BOOLEAN :
                     /\ calls' = Append(calls,
                            Call("delete", ri, rec.host, provs[pj], ck,
                                 rec.change_id[1].prov, ok))
                     /\ IF ok
                        THEN pj' = pj + 1 /\ UNCHANGED <<pc, faResult, error>>
                        ELSE FaRaise("delete_failed", rec.host) /\ UNCHANGED pj
                     /\ UNCHANGED ck
    /\ UNCHANGED <<configVars, di, ri, wc, change_ids, authorizations, held,
                   verified, verifyOutcome, cleanupVars, gaResult>>

(***************************************************************************)
(* cleanup_dns_challenges (lines 427-464), on the list the caller passes.  *)
(***************************************************************************)
\* lines 439-440: the next record and the providers of its host; after the
\* last record the function returns.
CL_Record ==
    /\ pc = "cl_record"
    /\ IF ri > Len(held)
       THEN pc' = "cleanup_returned" /\ UNCHANGED pj
       ELSE pc' = "cl_provider" /\ pj' = 1
    /\ UNCHANGED <<configVars, di, ck, ri, wc, change_ids, authorizations, held,
                   verified, verifyOutcome, calls, cleanupVars, gaResult,
                   faResult, error>>

\* lines 441-450: the next provider and its plugin, outside the try.
CL_Provider ==
    /\ pc = "cl_provider"
    /\ LET provs == dns_providers_for_domain[held[ri].host]
       IN  IF pj > Len(provs)
           THEN /\ pc' = "cl_record"
                /\ ri' = ri + 1
                /\ UNCHANGED ck
           ELSE IF ~ProviderKnown(provs[pj])
                THEN pc' = "cleanup_raised" /\ UNCHANGED <<ri, ck>>
                ELSE /\ pc' = "cl_delete"
                     /\ ck' = 1
                     /\ UNCHANGED ri
    /\ UNCHANGED <<configVars, di, pj, wc, change_ids, authorizations, held,
                   verified, verifyOutcome, calls, cleanupVars, gaResult,
                   faResult, error>>

\* A plausible slip: the except clause re-raises, as the teardown of
\* finalize_authorizations does.
CL_DeleteReraises ==
    /\ pc = "cl_delete"
    /\ LET rec == held[ri]
           q == dns_providers_for_domain[rec.host][pj]
       IN  IF ck > rec.dns_challenge
           THEN /\ pc' = "cl_provider"
                /\ pj' = pj + 1
                /\ UNCHANGED <<ck, cleanupCalls, cleanupErrors>>
           ELSE \E ok \in BOOLEAN :
                /\ cleanupCalls' = Append(cleanupCalls,
                       Call("delete", ri, rec.host, q, ck, rec.change_id[1].prov, TRUE))
                /\ cleanupErrors' = cleanupErrors + (IF ok THEN 0 ELSE 1)
                /\ IF ok THEN ck' = ck + 1 /\ UNCHANGED pc
                         ELSE pc' = "cleanup_raised" /\ UNCHANGED ck
                /\ UNCHANGED pj
    /\ UNCHANGED <<configVars, di, ri, wc, change_ids, authorizations, held,
                   verified, verifyOutcome, calls, gaResult, faResult, error>>

\* lines 451-464: delete_txt_record for the next challenge, with the record's
\* whole change_id list; a failure is counted and swallowed. The history keeps
\* the attempt, not its outcome.
CL_Delete ==
    /\ pc = "cl_delete"
    /\ LET rec == held[ri]
           q == dns_providers_for_domain[rec.host][pj]
       IN  IF ck > rec.dns_challenge
           THEN /\ pc' = "cl_provider"
                /\ pj' = pj + 1
                /\ UNCHANGED <<ck, cleanupCalls, cleanupErrors>>
           ELSE \E ok \in BOOLEAN :
                /\ cleanupCalls' = Append(cleanupCalls,
                       Call("delete", ri, rec.host, q, ck, rec.change_id[1].prov, TRUE))
                /\ cleanupErrors' = cleanupErrors + (IF ok THEN 0 ELSE 1)
                /\ ck' = ck + 1
                /\ UNCHANGED <<pc, pj>>
    /\ UNCHANGED <<configVars, di, ri, wc, change_ids, authorizations, held,
                   verified, verifyOutcome, calls, gaResult, faResult, error>>

(***************************************************************************)
(* The caller of the handlers (spec.md 2 and 4.4: the control flow of one  *)
(* issuance, and "cleanup ... is invoked by the caller when any step in    *)
(* 4.4/4.5 fails").                                                        *)
(***************************************************************************)
\* get_authorizations returned: its list goes to finalize_authorizations.
CallerFinalize ==
    /\ pc = "ga_returned"
    /\ held' = authorizations
    /\ pc' = "fa_complete"
    /\ ri' = 1
    /\ UNCHANGED <<configVars, di, pj, ck, wc, change_ids, authorizations,
                   verified, verifyOutcome, calls, cleanupVars, gaResult,
                   faResult, error>>

\* A handler raised: cleanup runs on the authorizations the caller holds.
CallerCleanup ==
    /\ pc \in {"ga_raised", "fa_raised"}
    /\ pc' = "cl_record"
    /\ ri' = 1
    /\ UNCHANGED <<configVars, di, pj, ck, wc, change_ids, authorizations, held,
                   verified, verifyOutcome, calls, cleanupVars, gaResult,
                   faResult, error>>

\* finalize_authorizations returned and the order was finalized.
CallerDone ==
    /\ pc = "fa_returned"
    /\ pc' = "done"
    /\ UNCHANGED <<configVars, di, pj, ck, ri, wc, change_ids, authorizations,
                   held, verified, verifyOutcome, calls, cleanupVars, gaResult,
                   faResult, error>>

\* finalize_authorizations returned and finalizing the order (4.5) failed.
CallerOrderFailed ==
    /\ pc = "fa_returned"
    /\ pc' = "cl_record"
    /\ ri' = 1
    /\ error' = [kind |-> "finalization_failed", domain |-> 0]
    /\ UNCHANGED <<configVars, di, pj, ck, wc, change_ids, authorizations, held,
                   verified, verifyOutcome, calls, cleanupVars, gaResult,
                   faResult>>

\* cleanup returned: the error propagates.
CallerReraise ==
    /\ pc = "cleanup_returned"
    /\ pc' = "failed"
    /\ UNCHANGED <<configVars, di, pj, ck, ri, wc, change_ids, authorizations,
                   held, verified, verifyOutcome, calls, cleanupVars, gaResult,
                   faResult, error>>

IssuanceNext ==
    \/ GA_Domain \/ GA_Provider \/ SDC_Start \/ SDC_Create
    \/ FA_Complete \/ CDC_Start \/ CDC_Provider \/ CDC_Wait \/ CDC_Verify
    \/ CDC_Check \/ CDC_Answer \/ FA_Record \/ FA_Challenge \/ FA_Delete
    \/ CL_Record \/ CL_Provider \/ CL_Delete
    \/ CallerFinalize \/ CallerCleanup \/ CallerDone \/ CallerOrderFailed
    \/ CallerReraise

(***************************************************************************)
(* get_dns_challenges (lines 238-254) with strip_wildcard (lines 70-75).    *)
(*                                                                         *)
(* A host is a string over letters of both cases, "*" and "."; an          *)
(* authorization is its identifier, its wildcard flag and the types of its *)
(* challenges in order.  A challenge is named by the position of its       *)
(* authorization in the list and its own position in that authorization.   *)
(***************************************************************************)
MaxHostLen == 3     \* longest host and longest identifier
MaxAuthz == 2       \* len(authorizations)
MaxCombos == 2      \* len(authz.body.challenges)

HostAlphabet == {"a", "A", "*", "."}

HostStrings == SeqsOf(HostAlphabet, 1, MaxHostLen)

\* Identifiers are single labels: letters of both cases.
Identifiers == SeqsOf({"a", "A"}, 0, MaxHostLen)

ChallengeTypes == {"dns-01", "http-01"}

Authz ==
    [identifier : Identifiers, wildcard : BOOLEAN,
     challenges : SeqsOf(ChallengeTypes, 0, MaxCombos)]

\* str.startswith
StartsWith(s, t) ==
    /\ Len(t) <= Len(s)
    /\ \A i \in 1..Len(t) : s[i] = t[i]

\* str.lower
Lower(s) == [i \in 1..Len(s) |-> IF s[i] = "A" THEN "a" ELSE s[i]]

\* lines 70-75
strip_wildcard(h) ==
    LET prefix == <<"*", ".">>
    IN  IF StartsWith(h, prefix)
        THEN [host |-> SubSeq(h, Len(prefix) + 1, Len(h)), removed |-> TRUE]
        ELSE [host |-> h, removed |-> FALSE]

\* lines 250-252: the DNS-01 combos of the n-th authorization, in order.
RECURSIVE Dns01Combos(_, _, _)
Dns01Combos(n, challs, i) ==
    IF i > Len(challs)
    THEN <<>>
    ELSE (IF challs[i] = "dns-01" THEN <<[authz |-> n, pos |-> i]>> ELSE <<>>)
             \o Dns01Combos(n, challs, i + 1)

\* A plausible slip: the wildcard flag is checked for wildcard hosts only.
GetDnsChallengesStepOneSided(dc, n, authz, h) ==
    LET domain_to_validate == strip_wildcard(h).host
        is_wildcard == strip_wildcard(h).removed
    IN  IF Lower(authz.identifier) # Lower(domain_to_validate)
        THEN dc
        ELSE IF is_wildcard /\ ~authz.wildcard
        THEN dc
        ELSE dc \o Dns01Combos(n, authz.challenges, 1)

\* lines 243-252: one iteration of the loop, for the n-th authorization.
GetDnsChallengesStep(dc, n, authz, h) ==
    LET domain_to_validate == strip_wildcard(h).host
        is_wildcard == strip_wildcard(h).removed
    IN  IF Lower(authz.identifier) # Lower(domain_to_validate)
        THEN dc
        ELSE IF is_wildcard /\ ~authz.wildcard
        THEN dc
        ELSE IF ~is_wildcard /\ authz.wildcard
        THEN dc
        ELSE dc \o Dns01Combos(n, authz.challenges, 1)

\* The same letters up to case, stated position by position.
SameUpToCase(s, t) ==
    /\ Len(s) = Len(t)
    /\ \A i \in 1..Len(s) : s[i] = t[i] \/ {s[i], t[i]} = {"a", "A"}

\* A host is a wildcard host when it begins with "*."; what follows is the
\* name to validate.
HostIsWildcard(h) == Len(h) >= 2 /\ h[1] = "*" /\ h[2] = "."

HostToValidate(h) == IF HostIsWildcard(h) THEN Tail(Tail(h)) ELSE h

\* An authorization is the host's when its identifier is the host's name up to
\* case and its wildcard flag is the host's.
AuthzIsOfHost(authz, h) ==
    /\ SameUpToCase(authz.identifier, HostToValidate(h))
    /\ authz.wildcard = HostIsWildcard(h)

ChallengesIdle ==
    /\ gdc_host = <<>>
    /\ gpc = "idle"
    /\ authzCount = 0
    /\ dns_challenges = <<>>
    /\ eligible = {}

\* lines 241-242, for any host.
ChallengesInit ==
    /\ gdc_host \in HostStrings
    /\ gpc = "loop"
    /\ authzCount = 0
    /\ dns_challenges = <<>>
    /\ eligible = {}

challengeFixed ==
    <<gdc_host, resolverVars, issuanceVars, setupVars, nameVars, requestVars>>

\* lines 243-252: the loop visits the next authorization, whatever it is.
GetDnsChallengesAuthz ==
    /\ gpc = "loop"
    /\ authzCount < MaxAuthz
    /\ \E authz \in Authz :
        LET n == authzCount + 1
        IN  /\ dns_challenges' = GetDnsChallengesStep(dns_challenges, n, authz, gdc_host)
            /\ eligible' = eligible \cup
                 {[authz |-> n, pos |-> i] : i \in
                     {k \in 1..Len(authz.challenges) :
                         /\ authz.challenges[k] = "dns-01"
                         /\ AuthzIsOfHost(authz, gdc_host)}}
            /\ authzCount' = n
    /\ UNCHANGED <<gpc, challengeFixed>>

\* line 254: the list ends (it may be empty, or end at any length) and
\* dns_challenges is returned.
GetDnsChallengesReturn ==
    /\ gpc = "loop"
    /\ gpc' = "returned"
    /\ UNCHANGED <<authzCount, dns_challenges, eligible, challengeFixed>>

ChallengesNext == GetDnsChallengesAuthz \/ GetDnsChallengesReturn

(***************************************************************************)
(* The record name of a host at a provider: start_dns_challenge (lines     *)
(* 284-297, called at lines 367-374), finalize_authorizations (lines       *)
(* 412-422) and cleanup_dns_challenges (lines 443-455), with               *)
(* maybe_add_extension (lines 77-82).                                      *)
(*                                                                         *)
(* The options of a provider are None or a dictionary; a dictionary, like  *)
(* the parsed credentials, has an acme_challenge_extension or not.         *)
(***************************************************************************)
Extensions == {<<"-">>, <<"-", "a">>}

NoOptions == [set |-> FALSE, has_extension |-> FALSE, extension |-> <<>>]

OptionDicts ==
    {[set |-> TRUE, has_extension |-> FALSE, extension |-> <<>>]} \cup
    {[set |-> TRUE, has_extension |-> TRUE, extension |-> e] :
        e \in Extensions \cup {<<>>}}

\* lines 77-82: the extension is appended when the options are truthy and carry
\* a truthy acme_challenge_extension.
maybe_add_extension(h, dns_provider_options) ==
    IF /\ dns_provider_options.set
       /\ dns_provider_options.has_extension
       /\ dns_provider_options.extension # <<>>
    THEN h \o dns_provider_options.extension
    ELSE h

\* acme's DNS01.validation_domain_name: the label, a dot, the name.
validation_domain_name(name) == <<"_acme-challenge", ".">> \o name

NamesIdle ==
    /\ name_host = <<>>
    /\ provider_options = NoOptions
    /\ provider_credentials = NoOptions
    /\ npc = "idle"
    /\ created_name = <<>>
    /\ deleted_name = <<>>

\* Any host, any options of the provider and any credentials (always a
\* dictionary: line 365 reads account_id from it).
NamesInit ==
    /\ name_host \in HostStrings
    /\ provider_options \in {NoOptions} \cup OptionDicts
    /\ provider_credentials \in OptionDicts
    /\ npc = "start"
    /\ created_name = <<>>
    /\ deleted_name = <<>>

nameFixed ==
    <<name_host, provider_options, provider_credentials, resolverVars,
      issuanceVars, setupVars, challengeVars, requestVars>>

\* lines 284-297 with line 373: the name start_dns_challenge passes to
\* create_txt_record, from dns_provider.options.
NameCreate ==
    /\ npc = "start"
    /\ created_name' =
         validation_domain_name(
             maybe_add_extension(strip_wildcard(name_host).host, provider_options))
    /\ npc' = "created"
    /\ UNCHANGED <<deleted_name, nameFixed>>

\* lines 412-422: the name finalize_authorizations passes to delete_txt_record,
\* from json.loads(dns_provider.credentials).
NameDeleteFinalize ==
    /\ npc = "created"
    /\ deleted_name' =
         validation_domain_name(
             maybe_add_extension(strip_wildcard(name_host).host,
                                 provider_credentials))
    /\ npc' = "deleted"
    /\ UNCHANGED <<created_name, nameFixed>>

\* lines 443-455: the name cleanup_dns_challenges passes to delete_txt_record,
\* from json.loads(dns_provider.credentials).
NameDeleteCleanup ==
    /\ npc = "created"
    /\ deleted_name' =
         validation_domain_name(
             maybe_add_extension(strip_wildcard(name_host).host,
                                 provider_credentials))
    /\ npc' = "cleaned"
    /\ UNCHANGED <<created_name, nameFixed>>

NamesNext == NameCreate \/ NameDeleteFinalize \/ NameDeleteCleanup

(***************************************************************************)
(* request_certificate (lines 84-131).                                     *)
(*                                                                         *)
(* A PEM text is a string: a certificate is its BEGIN line "B", its body   *)
(* (one character naming the certificate) and its END line "E", each       *)
(* followed by an end of line, which is "n" (LF) or "r", "n" (CRLF).  A    *)
(* date is a day, month and two-digit year, as '%d/%m/%y' reads it.        *)
(***************************************************************************)
MaxIntermediates == 1   \* certificates that follow the leaf in the full chain
DateSpan == 1           \* days and years around the default expiration date

Whitespace == {"n", "r"}

LF == <<"n">>

CRLF == <<"r", "n">>

PemEncode(cert, eol) == <<"B">> \o eol \o <<cert>> \o eol \o <<"E">> \o eol

\* The texts of a chain: the certificates in order, each in the same line
\* ending, with or without an empty line after each.
RECURSIVE JoinPem(_, _, _)
JoinPem(certs, eol, blank) ==
    IF certs = <<>>
    THEN <<>>
    ELSE PemEncode(Head(certs), eol) \o (IF blank THEN eol ELSE <<>>)
             \o JoinPem(Tail(certs), eol, blank)

FullChains ==
    {JoinPem(<<"l">> \o [i \in 1..k |-> "i"], eol, blank) :
        k \in 0..MaxIntermediates, eol \in {LF, CRLF}, blank \in BOOLEAN}

\* str.lstrip
RECURSIVE LStrip(_)
LStrip(t) ==
    IF t # <<>> /\ Head(t) \in Whitespace THEN LStrip(Tail(t)) ELSE t

\* OpenSSL.crypto.load_certificate: the first certificate of the text.
load_certificate(t) ==
    LET begin == CHOOSE i \in 1..Len(t) :
                     t[i] = "B" /\ \A j \in 1..(i - 1) : t[j] # "B"
        body == CHOOSE i \in (begin + 1)..Len(t) :
                     /\ t[i] \notin Whitespace
                     /\ \A j \in (begin + 1)..(i - 1) : t[j] \in Whitespace
    IN  t[body]

\* OpenSSL.crypto.dump_certificate: the certificate with LF line endings.
dump_certificate(cert) == PemEncode(cert, LF)

Dates ==
    [d : (17 - DateSpan)..(17 + DateSpan), m : {3},
     y : (21 - DateSpan)..(21 + DateSpan)]

\* line 121: the default "17/03/21", as strptime reads it.
DefaultExpiration == [d |-> 17, m |-> 3, y |-> 21]

\* datetime's <, on dates at midnight.
DateBefore(a, b) ==
    \/ a.y < b.y
    \/ a.y = b.y /\ a.m < b.m
    \/ a.y = b.y /\ a.m = b.m /\ a.d < b.d

\* lines 119-121
UseCrossSigned ==
    /\ cross_signed_ica # <<>>
    /\ DateBefore(now, IF expiration_date.set THEN expiration_date.date
                       ELSE DefaultExpiration)

\* A plausible slip: a validation error is fatal whatever the order carries.
ValidationErrorNeverBenign(has_chain) == FALSE

\* lines 101-105: a validation error is passed over when order.fullchain_pem
\* is set.
ValidationErrorIsBenign(has_chain) == has_chain

RequestIdle ==
    /\ fullchain_pem = <<>>
    /\ order_has_chain = FALSE
    /\ cross_signed_ica = <<>>
    /\ expiration_date = [set |-> FALSE, date |-> DefaultExpiration]
    /\ now = DefaultExpiration
    /\ rqpc = "idle"
    /\ finalize_outcome = "none"
    /\ rq_error = "none"
    /\ pem_certificate = <<>>
    /\ pem_certificate_chain = <<>>

\* Any full chain of the service, an order that carries it already or not, any
\* configuration of the cross-signed chain and its expiration, and any day.
RequestInit ==
    /\ fullchain_pem \in FullChains
    /\ order_has_chain \in BOOLEAN
    /\ cross_signed_ica \in {<<>>, PemEncode("x", LF)}
    /\ expiration_date \in
         {[set |-> FALSE, date |-> DefaultExpiration]} \cup
         {[set |-> TRUE, date |-> e] : e \in Dates}
    /\ now \in Dates
    /\ rqpc = "polling"
    /\ finalize_outcome = "none"
    /\ rq_error = "none"
    /\ pem_certificate = <<>>
    /\ pem_certificate_chain = <<>>

requestFixed ==
    <<fullchain_pem, order_has_chain, cross_signed_ica, expiration_date, now,
      resolverVars, issuanceVars, setupVars, challengeVars, nameVars>>

\* lines 85-87: the authorizations are polled; nothing catches a failure.
RC_Poll ==
    /\ rqpc = "polling"
    /\ \E ok \in BOOLEAN :
        IF ok
        THEN rqpc' = "finalizing" /\ UNCHANGED rq_error
        ELSE rqpc' = "raised" /\ rq_error' = "poll_failed"
    /\ UNCHANGED <<finalize_outcome, pem_certificate, pem_certificate_chain,
                   requestFixed>>

\* lines 89-131: poll_and_finalize returns the order with its full chain or
\* raises; the leaf is re-encoded from the full chain, and the chain is the
\* configured one or what follows the first len(pem_certificate) characters.
RC_Finalize ==
    /\ rqpc = "finalizing"
    /\ \E outcome \in {"order", "AcmeError", "TimeoutError", "ValidationError"} :
        /\ finalize_outcome' = outcome
        /\ IF \/ outcome \in {"AcmeError", "TimeoutError"}
              \/ /\ outcome = "ValidationError"
                 /\ ~ValidationErrorIsBenign(order_has_chain)
           THEN /\ rqpc' = "raised"
                /\ rq_error' = outcome
                /\ UNCHANGED <<pem_certificate, pem_certificate_chain>>
           ELSE LET certificate == dump_certificate(load_certificate(fullchain_pem))
                IN  /\ pem_certificate' = certificate
                    /\ pem_certificate_chain' =
                         IF UseCrossSigned
                         THEN cross_signed_ica
                         ELSE LStrip(SubSeq(fullchain_pem, Len(certificate) + 1,
                                            Len(fullchain_pem)))
                    /\ rqpc' = "returned"
                    /\ UNCHANGED rq_error
    /\ UNCHANGED requestFixed

RequestNext == RC_Poll \/ RC_Finalize

PureIdle == ChallengesIdle /\ NamesIdle /\ RequestIdle

Init == IssuanceInit /\ ResolverIdle /\ SetupIdle /\ PureIdle

Spec == Init /\ [][IssuanceNext]_vars

InitResolver == ResolverInit /\ IssuanceIdle /\ SetupIdle /\ PureIdle

SpecResolver == InitResolver /\ [][ResolverNext]_vars

InitSetup == SetupInit /\ ResolverIdle /\ IssuanceIdle /\ PureIdle

SpecSetup == InitSetup /\ [][SetupNext]_vars

InitChallenges ==
    /\ ChallengesInit
    /\ ResolverIdle /\ IssuanceIdle /\ SetupIdle /\ NamesIdle /\ RequestIdle

SpecChallenges == InitChallenges /\ [][ChallengesNext]_vars

InitNames ==
    /\ NamesInit
    /\ ResolverIdle /\ IssuanceIdle /\ SetupIdle /\ ChallengesIdle /\ RequestIdle

SpecNames == InitNames /\ [][NamesNext]_vars

InitRequest ==
    /\ RequestInit
    /\ ResolverIdle /\ IssuanceIdle /\ SetupIdle /\ ChallengesIdle /\ NamesIdle

SpecRequest == InitRequest /\ [][RequestNext]_vars

(***************************************************************************)
(* Properties.                                                             *)
(***************************************************************************)
CallIdx == 1..Len(calls)

\* The providers owning a suffix that owns the domain (SuffixOwnsDomain), and
\* the longest such suffix over all providers.
MatchingProviders == {p \in AllProviders : bestMatch[p] >= 0}

LongestMatch == Max({bestMatch[p] : p \in MatchingProviders})

\* C1: autodetect_dns_providers returns exactly the providers that own a
\* matching suffix of the greatest length among all matching suffixes of all
\* providers, and no provider when no suffix matches.
C1_SelectsLongestMatches ==
    rpc = "returned" =>
        Range(selection) =
            {p \in MatchingProviders : bestMatch[p] = LongestMatch}

\* Two providers tie on the longest suffix and are both selected, while a third
\* one matches with a shorter suffix and is left out.
C1_Witness ==
    /\ rpc = "returned"
    /\ Cardinality(Range(selection)) = 2
    /\ \E p \in MatchingProviders : p \notin Range(selection)
    /\ match_length = LongestMatch

\* C2: no answer_challenge is made for an AuthorizationRecord unless the local
\* verification of every DNS-01 challenge of that record succeeded; a failed
\* verification raises before any submission.
C2_AnswerOnlyIfAllVerified ==
    \A i \in CallIdx :
        calls[i].op = "answer" =>
            \A k \in 1..held[calls[i].rec].dns_challenge :
                verifyOutcome[<<calls[i].host, k>>] = "ok"

\* The (record, provider, challenge) combinations cleanup is to attempt.
CleanupCombinations ==
    {<<r, q, k>> \in (1..Len(held)) \X Providers \X (1..MaxChallenges) :
        /\ q \in Range(dns_providers_for_domain[held[r].host])
        /\ k <= held[r].dns_challenge}

\* C3: cleanup_dns_challenges never raises, and once it has returned it has
\* attempted the delete of every (record, provider, challenge) combination
\* exactly once, however many of the deletes failed.
C3_CleanupNeverRaises ==
    /\ pc # "cleanup_raised"
    /\ pc \in {"cleanup_returned", "failed"} =>
        /\ {<<cleanupCalls[i].rec, cleanupCalls[i].prov, cleanupCalls[i].chall>> :
                i \in 1..Len(cleanupCalls)} = CleanupCombinations
        /\ Len(cleanupCalls) = Cardinality(CleanupCombinations)

\* Cleanup has returned after every one of at least four deletes failed.
C3_Witness ==
    /\ pc = "cleanup_returned"
    /\ Len(cleanupCalls) >= 4
    /\ cleanupErrors = Len(cleanupCalls)

\* C4: finalize_authorizations raises whenever a delete_txt_record call of its
\* teardown fails.
C4_TeardownFailureRaises ==
    \A i \in CallIdx :
        (calls[i].op = "delete" /\ ~calls[i].ok) =>
            /\ faResult = "raised"
            /\ error = [kind |-> "delete_failed", domain |-> calls[i].host]
            /\ i = Len(calls)

\* The deletion at one provider of the host succeeded, the deletion of the same
\* challenge at the other provider failed, and finalize_authorizations raised.
C4_Witness ==
    /\ faResult = "raised"
    /\ \E i, j \in CallIdx :
        /\ i < j
        /\ calls[i].op = "delete" /\ calls[i].ok
        /\ calls[j].op = "delete" /\ ~calls[j].ok
        /\ calls[i].rec = calls[j].rec /\ calls[i].chall = calls[j].chall
        /\ calls[i].prov # calls[j].prov

\* C5: when get_authorizations fails because a requested domain has no selected
\* provider, the error names that domain and no create_txt_record call has been
\* made for any domain of the order.
C5_NoProviderFailsBeforeAnyCreate ==
    (gaResult = "raised" /\ error.kind = "no_dns_provider") =>
        /\ dns_providers_for_domain[error.domain] = <<>>
        /\ \A i \in CallIdx : calls[i].op # "create"

\* C6: when record creation, the propagation wait or the local verification
\* fails, a delete has been attempted for every TXT record created in the
\* issuance by the time the error leaves the issuance.
C6_CleanupCoversCreatedRecords ==
    (pc = "failed" /\
     error.kind \in {"create_failed", "wait_failed", "verification_failed"}) =>
        \A i \in CallIdx :
            (calls[i].op = "create" /\ calls[i].ok) =>
                \E j \in 1..Len(cleanupCalls) :
                    /\ cleanupCalls[j].host = calls[i].host
                    /\ cleanupCalls[j].prov = calls[i].prov
                    /\ cleanupCalls[j].chall = calls[i].chall

\* Every TXT record of the order: one per domain, selected provider and challenge.
OrderRecords ==
    {<<d, p, k>> \in Hosts \X Providers \X (1..MaxChallenges) :
        /\ d \in Range(domains)
        /\ p \in Range(dns_providers_for_domain[d])
        /\ k <= order_challenges[d]}

\* C7: every create_txt_record call for every host of the order precedes the
\* first local verification or answer_challenge: when one of those is made,
\* every record of the order has been created and no creation follows.
C7_CreatesPrecedeVerification ==
    \A j \in CallIdx :
        calls[j].op \in {"verify", "answer"} =>
            /\ \A i \in CallIdx : calls[i].op = "create" => i < j
            /\ \A rec \in OrderRecords :
                \E i \in 1..j :
                    /\ calls[i].op = "create" /\ calls[i].ok
                    /\ <<calls[i].host, calls[i].prov, calls[i].chall>> = rec

\* An order of two hosts, the second served by two providers: a challenge has
\* been answered after the records of both hosts were created.
C7_Witness ==
    /\ Len(domains) = 2
    /\ Len(dns_providers_for_domain[2]) = 2
    /\ \E j \in CallIdx : calls[j].op = "answer"
    /\ \E i \in CallIdx : calls[i].op = "create" /\ calls[i].host = 2

\* C8: with no options on the authority, setup_acme_client fails with
\* InvalidAuthority after exactly one attempt, without a retry.
C8_InvalidAuthorityNotRetried ==
    (~authority_options.set /\ spc # "calling") =>
        /\ spc = "raised"
        /\ raised = "InvalidAuthority"
        /\ Len(attempts) = 1

\* C9: setup_acme_client makes at most stop_max_attempt_number attempts; a
\* successful attempt is the last one and its client is returned; when the call
\* raises, every one of the stop_max_attempt_number attempts failed and the
\* exception is that of the last attempt.
C9_BoundedRetry ==
    /\ Len(attempts) <= stop_max_attempt_number
    /\ \A i \in 1..Len(attempts) : attempts[i] = "ok" => i = Len(attempts)
    /\ spc = "returned" <=> (attempts # <<>> /\ attempts[Len(attempts)] = "ok")
    /\ spc = "returned" => session # NoSession
    /\ spc = "raised" <=> (Len(attempts) = stop_max_attempt_number
                           /\ attempts[Len(attempts)] = "failed")
    /\ spc = "raised" => (raised = lastError /\ raised # "none")

\* The fifth attempt failed after a registration went through on an earlier
\* one, and its error left the call.
C9_Witness ==
    /\ spc = "raised"
    /\ Len(attempts) = stop_max_attempt_number
    /\ raised = "directory_unreachable"
    /\ newAccountCalls >= 1

\* A stored value is present: an option of that name with a value, or the
\* process-wide default.
StoredPresent(name, default) ==
    \/ \E i \in 1..Len(authority_options.list) :
           /\ authority_options.list[i].name = name
           /\ authority_options.list[i].value # ""
    \/ default # ""

\* C10: whenever a stored private key and a stored registration are both
\* present, in the options or in the defaults, setup_acme_client makes no
\* new-account call and no write of the authority's options, and the client it
\* returns is bound to the existing account.
C10_StoredAccountReused ==
    (/\ authority_options.set
     /\ StoredPresent("acme_private_key", config.ACME_PRIVATE_KEY)
     /\ StoredPresent("acme_regr", config.ACME_REGR)) =>
        /\ newAccountCalls = 0
        /\ optionWrites = <<>>
        /\ spc = "returned" => ~session.new

\* C11: setup_acme_client writes the authority's options only on the
\* new-account path, only when store_account is set, and then as the options
\* with acme_private_key and acme_regr appended; when store_account is false or
\* absent and the directory and the registration answer, a new-account setup
\* makes one registration and returns the new session with no write.
C11_StoreAccountOptIn ==
    /\ optionWrites # <<>> =>
        /\ ~ReusesAccount
        /\ OptionsGet(authority_options.list, "store_account", "") # ""
        /\ optionWrites = <<new_options>>
    /\ (/\ authority_options.set
        /\ ~ReusesAccount
        /\ OptionsGet(authority_options.list, "store_account", "") = ""
        /\ attempts # <<>>
        /\ lastError \notin {"directory_unreachable", "registration_timeout"}) =>
            /\ spc = "returned"
            /\ session.new
            /\ newAccountCalls = 1
            /\ optionWrites = <<>>

\* C12: get_dns_challenges returns exactly the DNS-01 challenges of the
\* authorizations whose identifier is the wildcard-stripped host up to case and
\* whose wildcard flag is the host's wildcard-ness, each once and in the order
\* of the authorizations; no challenge of another type and no challenge of an
\* authorization with a disagreeing wildcard flag is among them.
C12_ExactlyHostDns01Challenges ==
    /\ Range(dns_challenges) = eligible
    /\ Len(dns_challenges) = Cardinality(eligible)
    /\ \A i, j \in 1..Len(dns_challenges) :
        i < j =>
            \/ dns_challenges[i].authz < dns_challenges[j].authz
            \/ /\ dns_challenges[i].authz = dns_challenges[j].authz
               /\ dns_challenges[i].pos < dns_challenges[j].pos

\* For the wildcard host "*.a", the DNS-01 challenge of a wildcard
\* authorization for an identifier in another case has been returned, after an
\* authorization was passed over.
C12_Witness ==
    /\ gpc = "returned"
    /\ gdc_host = <<"*", ".", "a">>
    /\ authzCount = 2
    /\ dns_challenges = <<[authz |-> 2, pos |-> 2]>>

\* C13: once get_authorizations has returned, the list it returned holds
\* exactly one AuthorizationRecord for each requested host, however many
\* providers are selected for a host.
C13_OneRecordPerHost ==
    gaResult = "returned" =>
        /\ Len(authorizations) = Len(domains)
        /\ \A d \in Range(domains) :
            Cardinality({r \in 1..Len(authorizations) :
                            authorizations[r].host = d}) = 1

\* C16: when answer_challenge is called for a host, wait_for_dns_change has
\* returned successfully for every change identifier created for that host, at
\* whichever of its providers it was created; a failed wait is not retried and
\* no wait or submission follows it.
C16_AnswerAfterAllWaits ==
    /\ \A j \in CallIdx :
        calls[j].op = "answer" =>
            \A i \in CallIdx :
                (/\ calls[i].op = "create" /\ calls[i].ok
                 /\ calls[i].host = calls[j].host) =>
                    \E w \in 1..j :
                        /\ calls[w].op = "wait" /\ calls[w].ok
                        /\ calls[w].host = calls[i].host
                        /\ calls[w].chall = calls[i].chall
                        /\ calls[w].made = calls[i].prov
    /\ \A i \in CallIdx :
        (calls[i].op = "wait" /\ ~calls[i].ok) =>
            \A j \in CallIdx : j > i => calls[j].op \notin {"wait", "answer"}

\* The answer_challenge calls that succeeded for record r before call j.
AnswersBefore(r, j) ==
    {i \in 1..(j - 1) :
        calls[i].op = "answer" /\ calls[i].ok /\ calls[i].rec = r}

\* C18: in finalize_authorizations, when a delete_txt_record call is made,
\* complete_dns_challenge has finished for every record (it has submitted at
\* every provider of every record's host) and no wait, verification or
\* submission follows; when the completion of a record fails, no
\* delete_txt_record call has been made.
C18_DeletesAfterAllCompletions ==
    /\ \A j \in CallIdx :
        calls[j].op = "delete" =>
            /\ \A r \in 1..Len(held) :
                Cardinality(AnswersBefore(r, j)) =
                    Len(dns_providers_for_domain[held[r].host])
            /\ \A i \in CallIdx :
                i > j => calls[i].op = "delete"
    /\ (faResult = "raised" /\ error.kind # "delete_failed") =>
        \A j \in CallIdx : calls[j].op # "delete"

\* Two records of two hosts: a deletion for the first record has been made
\* after the submission for the second.
C18_Witness ==
    /\ Len(held) = 2
    /\ held[1].host # held[2].host
    /\ \E i, j \in CallIdx :
        /\ i < j
        /\ calls[i].op = "answer" /\ calls[i].rec = 2
        /\ calls[j].op = "delete" /\ calls[j].rec = 1

\* C19: once finalize_authorizations has returned, every DNS-01 challenge of
\* every AuthorizationRecord has been submitted with answer_challenge exactly
\* once.
C19_EachChallengeAnsweredOnce ==
    faResult = "returned" =>
        \A r \in 1..Len(held) :
            \A k \in 1..held[r].dns_challenge :
                Cardinality({i \in CallIdx :
                    /\ calls[i].op = "answer"
                    /\ calls[i].rec = r
                    /\ calls[i].chall = k}) = 1

\* C20: every change identifier passed to wait_for_dns_change or
\* delete_txt_record at a provider, with that provider's account, was returned
\* by a create_txt_record call made at that same provider.
C20_ChangeIdsStayWithProvider ==
    /\ \A i \in CallIdx :
        calls[i].op \in {"wait", "delete"} =>
            /\ calls[i].made = calls[i].prov
            /\ \E c \in 1..i :
                /\ calls[c].op = "create" /\ calls[c].ok
                /\ calls[c].prov = calls[i].prov
                /\ calls[c].host = calls[i].host
    /\ \A i \in 1..Len(cleanupCalls) :
        cleanupCalls[i].made = cleanupCalls[i].prov

\* C17: for every host and provider, the record name passed to
\* delete_txt_record, by finalize_authorizations and by cleanup_dns_challenges,
\* is the record name start_dns_challenge passed to create_txt_record, also
\* when the provider's options declare a challenge extension.
C17_DeleteNameIsCreateName ==
    npc \in {"deleted", "cleaned"} => deleted_name = created_name

\* C14: request_certificate returns a certificate and chain exactly when
\* poll_and_finalize returned an order, or raised a validation error while the
\* order already carried a full chain; on a timeout or protocol error, or a
\* validation error with no chain on the order, that error leaves
\* request_certificate and nothing is returned.
C14_ReturnsInTwoCases ==
    /\ rqpc = "returned" <=>
        \/ finalize_outcome = "order"
        \/ finalize_outcome = "ValidationError" /\ order_has_chain
    /\ rqpc = "returned" => pem_certificate # <<>>
    /\ (\/ finalize_outcome \in {"AcmeError", "TimeoutError"}
        \/ finalize_outcome = "ValidationError" /\ ~order_has_chain) =>
            /\ rqpc = "raised"
            /\ rq_error = finalize_outcome
            /\ pem_certificate = <<>>
            /\ pem_certificate_chain = <<>>

\* A validation error was raised while the order carried its chain, and the
\* certificate was returned.
C14_Witness ==
    /\ rqpc = "returned"
    /\ finalize_outcome = "ValidationError"
    /\ order_has_chain
    /\ pem_certificate = PemEncode("l", LF)

\* What follows the leaf certificate in a full chain: the text after its END
\* line, without the leading empty lines.
ChainAfterLeaf(t) ==
    LET end == CHOOSE i \in 1..Len(t) :
                   t[i] = "E" /\ \A j \in 1..(i - 1) : t[j] # "E"
    IN  LStrip(SubSeq(t, end + 1, Len(t)))

\* C15: request_certificate returns the configured cross-signed chain exactly
\* when it is configured and the current time is before its expiration date
\* (the configured one, or the default one); in every other case it returns
\* the part of the service's full chain that follows the leaf certificate.
C15_CrossSignedOrRestOfChain ==
    rqpc = "returned" =>
        IF /\ cross_signed_ica # <<>>
           /\ DateBefore(now, IF expiration_date.set THEN expiration_date.date
                              ELSE DefaultExpiration)
        THEN pem_certificate_chain = cross_signed_ica
        ELSE pem_certificate_chain = ChainAfterLeaf(fullchain_pem)

\* C21: for every option list and configuration, reuse_account answers true
\* exactly when setup_acme_client on the same authority takes the reuse branch:
\* after a true answer no new-account call is made and the returned client is
\* bound to the existing account, and after a false answer the returned client
\* is a newly registered one; also with an empty acme_private_key or acme_regr
\* value and with a repeated option name.
C21_ReuseAccountAgreesWithSetup ==
    /\ reuse_result = "true" =>
        /\ newAccountCalls = 0
        /\ spc = "returned" => ~session.new
    /\ reuse_result = "false" =>
        /\ spc = "returned" => session.new
        /\ attempts # <<>> /\ lastError # "directory_unreachable" =>
               newAccountCalls >= 1

====
